---- MODULE Spec2Model ----
(***************************************************************************)
(* A model of the two scripts of the repository:                           *)
(*   src/random_rename.py   the random renamer (rename_files_recursively)  *)
(*   src/backend/extract.py the metadata scanner (map_folder)              *)
(* File names are sequences of one-character strings, so that              *)
(* os.path.splitext, str.lower, str.lstrip and the substring test can be   *)
(* computed as Python computes them.                                       *)
(***************************************************************************)
EXTENDS Integers, Sequences, FiniteSets, TLC

(***************************************************************************)
(* Bounds of the model.                                                    *)
(***************************************************************************)
\* the largest --length explored
MaxLen == 2
\* the largest number of files in the tree at the start of the first run
MaxFiles == 2
\* the number of runs of the renamer on the same root (SpecRuns)
MaxRuns == 2
\* the wall clock (seconds) when the first run starts is 0; it reaches at most this
MaxClock == 1
\* the largest number of files met by the scanner
MaxScan == 3

(***************************************************************************)
(* Characters and strings.                                                 *)
(***************************************************************************)
\* a sample of string.ascii_lowercase + string.ascii_uppercase
LETTERS == {"t"}
\* a sample of string.digits
DIGITS == {"1"}
\* a sample of the special characters "!@#$%^&*()-_=+[]{}|;:,.<>?"
SPECIAL == {"."}
\* the fallback alphabet string.ascii_lowercase + string.digits, sampled alike
FALLBACK == {"t", "1"}

\* str.lower on one character of the sample
LowerChar(c) ==
    CASE c = "T" -> "t" [] c = "P" -> "p" [] c = "D" -> "d" [] c = "F" -> "f"
      [] OTHER -> c
\* str.lower
Lower(s) == [i \in 1..Len(s) |-> LowerChar(s[i])]

\* s.lstrip('.')
RECURSIVE Lstrip(_)
Lstrip(s) == IF Len(s) > 0 /\ s[1] = "." THEN Lstrip(Tail(s)) ELSE s

\* the Python test `pattern in base_filename`
Contains(pattern, s) ==
    \E i \in 0..(Len(s) - Len(pattern)) :
        \A j \in 1..Len(pattern) : s[i + j] = pattern[j]

\* p.rfind('.') + 1 (0 when p holds no dot)
DotIndex(p) ==
    IF \E i \in 1..Len(p) : p[i] = "."
    THEN CHOOSE i \in 1..Len(p) : p[i] = "." /\ \A j \in (i + 1)..Len(p) : p[j] # "."
    ELSE 0

\* the index where os.path.splitext cuts p: at the last dot, unless only dots
\* come before it (leading dots belong to the root)
SplitAt(p) ==
    LET d == DotIndex(p)
    IN  IF d > 0 /\ \E i \in 1..(d - 1) : p[i] # "." THEN d ELSE Len(p) + 1

\* os.path.splitext(p)[1]
Extension(p) == SubSeq(p, SplitAt(p), Len(p))

(***************************************************************************)
(* generate_random_name                                                    *)
(***************************************************************************)
\* the alphabet `chars` built from the enabled classes
Chars(use_letters, use_digits, use_special) ==
    LET chars == (IF use_letters THEN LETTERS ELSE {})
                 \cup (IF use_digits THEN DIGITS ELSE {})
                 \cup (IF use_special THEN SPECIAL ELSE {})
    IN  IF chars = {} THEN FALLBACK ELSE chars

\* the strings generate_random_name can return: `length` draws from chars
\* (range(length) is empty for length <= 0)
GenerateRandomName(length, use_letters, use_digits, use_special) ==
    [1..length -> Chars(use_letters, use_digits, use_special)]

(***************************************************************************)
(* The command line (__main__) and the options dictionary.                 *)
(***************************************************************************)
\* the values given to --exclude-ext: no dot, a dot, upper case
ExcludeExtArgs == {{}, {<<"t">>}, {<<".", "T">>}}
\* the values given to --exclude
ExcludeArgs == {{}, {<<"1">>}}

\* the parsed command lines explored: every name length and combination of
\* character classes with no exclusion rule given, and every combination of
\* exclusion rules with the default character classes
ArgSpace ==
    [length : 0..MaxLen, no_letters : BOOLEAN, no_digits : BOOLEAN,
     special : BOOLEAN, dry_run : BOOLEAN, no_log : {FALSE},
     include_script : {FALSE}, exclude : {{}}, exclude_ext : {{}}]
    \cup
    [length : {1}, no_letters : {FALSE}, no_digits : {FALSE},
     special : {FALSE}, dry_run : BOOLEAN, no_log : BOOLEAN,
     include_script : BOOLEAN, exclude : ExcludeArgs, exclude_ext : ExcludeExtArgs]

\* the list built for options['exclude_extensions']: a leading dot is put
\* before each value stripped of its leading dots; the letter case is kept
NormaliseExcludeExt(exclude_ext) == {<<".">> \o Lstrip(ext) : ext \in exclude_ext}

\* the options dictionary __main__ builds from the parsed arguments
MainOptions(args) ==
    [name_length |-> args.length,
     use_letters |-> ~args.no_letters,
     use_digits |-> ~args.no_digits,
     use_special |-> args.special,
     dry_run |-> args.dry_run,
     create_log |-> ~args.no_log,
     exclude_script |-> ~args.include_script,
     exclude_patterns |-> args.exclude,
     exclude_extensions |-> NormaliseExcludeExt(args.exclude_ext)]

(***************************************************************************)
(* The tree: a root directory holding files and at most one subdirectory,   *)
(* as a function from the directories that exist to their content.  A      *)
(* directory is a function from the names of its files to the files (a     *)
(* number names a file's content: 1.. the user's files, LogDoc(r) the log  *)
(* document written by run r).                                             *)
(***************************************************************************)
\* os.walk(root_folder) is top-down: the root, then its subdirectory
WalkOrder(dk) == IF "sub" \in DOMAIN dk THEN <<"root", "sub">> ELSE <<"root">>
\* the name of the subdirectory inside the root
SubName == <<"1">>
\* the name of the renamer's own file, when it lies in the root
ScriptName == <<"s", ".", "p">>
\* os.path.abspath(__file__), as (directory, name)
script_path == <<"root", ScriptName>>

\* whether `name` in directory d names a directory
IsDir(dk, d, name) == d = "root" /\ name = SubName /\ "sub" \in DOMAIN dk

\* the names of the files a directory holds
Listing(dk, d) == DOMAIN dk[d]

\* the orders in which the system may list the names S
Orders(S) ==
    {order \in [1..Cardinality(S) -> S] :
        \A i, j \in 1..Cardinality(S) : i # j => order[i] # order[j]}

\* the directory d without the entry `name`
Unlink(dir, name) == [n \in (DOMAIN dir) \ {name} |-> dir[n]]

\* the directory d with `name` bound to file f (an entry of that name is replaced)
Link(dir, name, f) == [n \in (DOMAIN dir) \cup {name} |-> IF n = name THEN f ELSE dir[n]]

\* the number of files in the tree
FileCount(dk) ==
    Cardinality(DOMAIN dk["root"])
    + (IF "sub" \in DOMAIN dk THEN Cardinality(DOMAIN dk["sub"]) ELSE 0)

(***************************************************************************)
(* should_exclude_file                                                     *)
(***************************************************************************)
should_exclude_file(d, filename, options) ==
    \/ options.exclude_script /\ <<d, filename>> = script_path
    \/ Lower(Extension(filename)) \in options.exclude_extensions
    \/ \E pattern \in options.exclude_patterns : Contains(pattern, filename)

(***************************************************************************)
(* safe_rename and the system calls it makes.  `env` says what the         *)
(* environment does to each call: env.direct is the exception os.rename    *)
(* meets for a reason outside the tree ("none", "FileNotFoundError" for a  *)
(* path the system cannot address, "OSError" for a file in use, a denied   *)
(* permission, another device), env.longpath and env.copy whether the      *)
(* second os.rename, shutil.copy2 and os.remove fail.                      *)
(***************************************************************************)
EnvSpace ==
    [direct : {"none", "OSError"}, longpath : {"none"}, copy : {"none"}]
    \cup
    [direct : {"FileNotFoundError"}, longpath : {"none"}, copy : {"none"}]
    \cup
    [direct : {"FileNotFoundError"}, longpath : {"OSError"},
     copy : {"none", "copy_fails", "remove_fails"}]

\* os.rename(old, new) inside directory d: the exception raised and the tree after.
\* An empty new name makes new_path the directory itself, and a directory as the
\* target is refused; POSIX replaces a file of the new name, Windows refuses
OsRename(dk, d, old, new, win32, fault) ==
    IF fault # "none" THEN [exc |-> fault, disk |-> dk]
    ELSE IF old \notin DOMAIN dk[d] THEN [exc |-> "FileNotFoundError", disk |-> dk]
    ELSE IF IsDir(dk, d, new) \/ new = <<>> THEN [exc |-> "OSError", disk |-> dk]
    ELSE IF old = new THEN [exc |-> "none", disk |-> dk]
    ELSE IF win32 /\ new \in DOMAIN dk[d] THEN [exc |-> "OSError", disk |-> dk]
    ELSE [exc |-> "none",
          disk |-> [dk EXCEPT ![d] = Link(Unlink(@, old), new, dk[d][old])]]

\* shutil.copy2(old, new) then os.remove(old): whether both succeeded, the tree after.
\* copy2 refuses to copy a file onto itself, copies into a directory given as the
\* target, and replaces a file of the new name
CopyThenDelete(dk, d, old, new, fault) ==
    IF fault = "copy_fails" \/ old \notin DOMAIN dk[d] \/ old = new \/ new = <<>>
    THEN [ok |-> FALSE, disk |-> dk]
    ELSE LET copied == IF IsDir(dk, d, new)
                       THEN [dk EXCEPT !["sub"] = Link(@, old, dk[d][old])]
                       ELSE [dk EXCEPT ![d] = Link(@, new, dk[d][old])]
         IN  IF fault = "remove_fails"
             THEN [ok |-> FALSE, disk |-> copied]
             ELSE [ok |-> TRUE, disk |-> [copied EXCEPT ![d] = Unlink(@, old)]]

\* safe_rename: [ok, disk, tiers], tiers being the tiers attempted, in order
safe_rename(dk, d, old, new, win32, env) ==
    LET direct == OsRename(dk, d, old, new, win32, env.direct)
    IN  IF direct.exc = "none"
        THEN [ok |-> TRUE, disk |-> direct.disk, tiers |-> <<"direct">>]
        ELSE IF direct.exc = "FileNotFoundError"
        THEN IF win32
             THEN LET longpath == OsRename(dk, d, old, new, win32, env.longpath)
                  IN  IF longpath.exc = "none"
                      THEN [ok |-> TRUE, disk |-> longpath.disk,
                            tiers |-> <<"direct", "longpath">>]
                      ELSE LET copy == CopyThenDelete(dk, d, old, new, env.copy)
                           IN  [ok |-> copy.ok, disk |-> copy.disk,
                                tiers |-> <<"direct", "longpath", "copy">>]
             ELSE [ok |-> FALSE, disk |-> dk, tiers |-> <<"direct">>]
        ELSE [ok |-> FALSE, disk |-> dk, tiers |-> <<"direct">>]

(***************************************************************************)
(* The state of the renamer.                                               *)
(***************************************************************************)
VARIABLES
    disk,               \* the tree on disk: [directories -> [names -> files]]
    win32,              \* sys.platform == 'win32'
    clock,              \* the wall clock, in seconds
    run,                \* the number of the current run, from 1
    options,            \* the options dictionary of the current run
    pc,                 \* "walk" inside rename_files_recursively, "done" after it
    walked,             \* how many directories os.walk has yielded
    current_dir,        \* the directory being processed
    files,              \* the rest of the list `files` of current_dir, its head
                        \* being the file in hand
    turns,              \* the parity of the turns of the `while True` loop for it
    used_names_by_dir,  \* [directories -> the names generated there]
    renamed_files,      \* the old -> new mapping, as a set of <<old, new>> paths
    counter,            \* [total, renamed, skipped, errors]
    disk0,              \* history: the tree when the current run started
    last,               \* history: what was done to the file processed last
    clobbers,           \* history: the renames of this run issued onto a held name
    written,            \* history: the log documents written, one record per write
    scan                \* the state of the metadata scanner (SpecScan)

vars == <<disk, win32, clock, run, options, pc, walked, current_dir, files,
          turns, used_names_by_dir, renamed_files, counter, disk0, last, clobbers,
          written, scan>>

\* the variables of the renamer
renamer_vars == <<disk, win32, clock, run, options, pc, walked, current_dir, files,
                  turns, used_names_by_dir, renamed_files, counter, disk0, last, clobbers,
                  written>>

\* the files the tree may hold when the first run starts, as <<directory, name>>;
\* a file is numbered by its place in this list
FilePool ==
    << <<"root", <<"t">> >>, <<"root", <<"t", "t">> >>,
       <<"root", <<"t", ".", "t">> >>, <<"root", <<"1", ".", "T">> >>,
       <<"root", ScriptName>>, <<"sub", <<"t", ".", "t">> >> >>

\* the tree over the directories D holding the files of FilePool numbered in S
Tree(D, S) ==
    [d \in D |->
        [n \in {FilePool[i][2] : i \in {j \in S : FilePool[j][1] = d}} |->
            CHOOSE i \in S : FilePool[i] = <<d, n>>]]

\* the trees at the start of the first run: a root with or without a
\* subdirectory, holding at most MaxFiles files
InitTrees ==
    {Tree(D, S) : D \in {{"root"}, {"root", "sub"}},
                  S \in {T \in SUBSET (1..Len(FilePool)) : Cardinality(T) <= MaxFiles}}

\* the log document written by run r, as a file
LogDoc(r) == 100 + r

\* time.strftime('%Y%m%d_%H%M%S') at wall clock t, as one character
Strftime(t) == <<"0", "1", "2", "3", "4", "5", "6", "7", "8", "9">>[(t % 10) + 1]

\* f"rename_log_{time.strftime('%Y%m%d_%H%M%S')}.json"
LogName(t) == <<"l", Strftime(t), ".", "j">>

\* renamed_files[key] = value
DictSet(dict, key, value) == {e \in dict : e[1] # key} \cup {<<key, value>>}
Keys(dict) == {e[1] : e \in dict}
Values(dict) == {e[2] : e \in dict}

NoFile == [action |-> "none"]

\* the state rename_files_recursively sets up before the walk, for run r
StartOfRun(opts) ==
    /\ options' = opts
    /\ pc' = "walk"
    /\ walked' = 0
    /\ current_dir' = "none"
    /\ files' = <<>>
    /\ turns' = 0
    /\ used_names_by_dir' = [d \in {} |-> {}]
    /\ renamed_files' = {}
    /\ counter' = [total |-> 0, renamed |-> 0, skipped |-> 0, errors |-> 0]
    /\ last' = NoFile
    /\ clobbers' = {}

\* the renamer about to walk a tree of Trees under a command line of Args
RenamerInit(Trees, Args) ==
    /\ disk \in Trees
    /\ win32 \in BOOLEAN
    /\ clock = 0
    /\ run = 1
    /\ options \in {MainOptions(args) : args \in Args}
    /\ pc = "walk"
    /\ walked = 0
    /\ current_dir = "none"
    /\ files = <<>>
    /\ turns = 0
    /\ used_names_by_dir = [d \in {} |-> {}]
    /\ renamed_files = {}
    /\ counter = [total |-> 0, renamed |-> 0, skipped |-> 0, errors |-> 0]
    /\ disk0 = disk
    /\ last = NoFile
    /\ clobbers = {}
    /\ written = {}

Init == RenamerInit(InitTrees, ArgSpace) /\ scan = [pc |-> "off"]

(***************************************************************************)
(* rename_files_recursively, one step per directory and per file.          *)
(***************************************************************************)
\* os.walk yields the next directory with the list of its files, in the order
\* the system lists them; the directory gets its set of used names
EnterDir ==
    /\ pc = "walk" /\ files = <<>> /\ walked < Len(WalkOrder(disk))
    /\ walked' = walked + 1
    /\ current_dir' = WalkOrder(disk)[walked + 1]
    /\ files' \in Orders(Listing(disk, WalkOrder(disk)[walked + 1]))
    /\ used_names_by_dir' =
          [d \in (DOMAIN used_names_by_dir) \cup {WalkOrder(disk)[walked + 1]} |->
              IF d \in DOMAIN used_names_by_dir THEN used_names_by_dir[d] ELSE {}]
    /\ UNCHANGED <<disk, win32, clock, run, options, pc, turns, renamed_files,
                   counter, disk0, last, clobbers, written, scan>>

\* the candidates of the `while True` loop for `filename`
Candidates(filename) ==
    {name \o Extension(filename) :
        name \in GenerateRandomName(options.name_length, options.use_letters,
                                    options.use_digits, options.use_special)}

\* a faulty variant: the generated name is not looked up in the used names
FreshNames_NoCheck(filename) == Candidates(filename)
\* the candidates that leave the loop: those not in used_names_by_dir[current_dir]
FreshNames(filename) == Candidates(filename) \ used_names_by_dir[current_dir]

\* a faulty variant: a failed rename is not counted in errors
Count_ErrorsForgotten(c, outcome) ==
    IF outcome \in {"renamed", "skipped"}
    THEN [c EXCEPT !.total = @ + 1, ![outcome] = @ + 1]
    ELSE [c EXCEPT !.total = @ + 1]
\* counter['total'] += 1 and the counter of the file's outcome ("none" in a dry run)
Count(c, outcome) ==
    IF outcome = "none" THEN [c EXCEPT !.total = @ + 1]
    ELSE [c EXCEPT !.total = @ + 1, ![outcome] = @ + 1]

\* a faulty variant: the `continue` after a failed rename is missing
StoreMapping_NoContinue(dict, ok, key, value) == DictSet(dict, key, value)
\* the mapping after a file: a failed rename `continue`s before the entry is stored
StoreMapping(dict, ok, key, value) == IF ok THEN DictSet(dict, key, value) ELSE dict

\* an excluded file is counted and left alone
SkipFile ==
    /\ pc = "walk" /\ files # <<>>
    /\ LET filename == Head(files)
       IN
        /\ should_exclude_file(current_dir, filename, options)
        /\ files' = Tail(files)
        /\ turns' = 0
        /\ counter' = Count(counter, "skipped")
        /\ last' = [action |-> "skipped", dir |-> current_dir, filename |-> filename]
    /\ UNCHANGED <<disk, win32, clock, run, options, pc, walked, current_dir,
                   used_names_by_dir, renamed_files, disk0, clobbers, written, scan>>

\* the generated name is already used in this directory: the loop goes round
Regenerate ==
    /\ pc = "walk" /\ files # <<>>
    /\ ~should_exclude_file(current_dir, Head(files), options)
    /\ \E new_name \in Candidates(Head(files)) :
          new_name \in used_names_by_dir[current_dir]
    /\ turns' = 1 - turns
    /\ UNCHANGED <<disk, win32, clock, run, options, pc, walked, current_dir, files,
                   used_names_by_dir, renamed_files, counter, disk0, last, clobbers,
                   written, scan>>

\* a faulty variant: dry_run is not looked at
RenameStep_Always(filename, new_name, env) ==
    safe_rename(disk, current_dir, filename, new_name, win32, env)
\* the outcome of the rename step for a file: "Would rename" in a dry run,
\* else what safe_rename returns
RenameStep(filename, new_name, env) ==
    IF options.dry_run
    THEN [ok |-> TRUE, disk |-> disk, tiers |-> <<>>]
    ELSE safe_rename(disk, current_dir, filename, new_name, win32, env)

\* a file that is not excluded gets a name not yet used in its directory and is renamed
RenameFile ==
    /\ pc = "walk" /\ files # <<>>
    /\ LET filename == Head(files)
       IN
        /\ ~should_exclude_file(current_dir, filename, options)
        /\ \E new_name \in FreshNames(filename) :
           \E env \in EnvSpace :
              LET r == RenameStep(filename, new_name, env)
                  held == new_name \in Listing(disk, current_dir) \ {filename}
              IN  /\ files' = Tail(files)
                  /\ turns' = 0
                  /\ used_names_by_dir' =
                        [used_names_by_dir EXCEPT ![current_dir] = @ \cup {new_name}]
                  /\ disk' = r.disk
                  /\ counter' = Count(counter, IF options.dry_run THEN "none"
                                                ELSE IF r.ok THEN "renamed" ELSE "errors")
                  /\ renamed_files' =
                        StoreMapping(renamed_files, r.ok, <<current_dir, filename>>,
                                     <<current_dir, new_name>>)
                  /\ last' = [action |-> IF options.dry_run THEN "would"
                                         ELSE IF r.ok THEN "renamed" ELSE "error",
                              dir |-> current_dir, filename |-> filename,
                              new_name |-> new_name, tiers |-> r.tiers]
                  /\ clobbers' = IF ~options.dry_run /\ held
                                 THEN clobbers \cup {<<current_dir, new_name>>}
                                 ELSE clobbers
    /\ UNCHANGED <<win32, clock, run, options, pc, walked, current_dir, disk0,
                   written, scan>>

\* after the walk: the log is written under the name of the current second
\* (open(..., 'w') replaces the content of a file of that name), then the summary
Finish ==
    /\ pc = "walk" /\ files = <<>> /\ walked = Len(WalkOrder(disk))
    /\ pc' = "done"
    /\ IF options.create_log /\ renamed_files # {} /\ ~options.dry_run
       THEN /\ disk' = [disk EXCEPT !["root"] = Link(@, LogName(clock), LogDoc(run))]
            /\ written' = written \cup
                  {[run |-> run, name |-> LogName(clock),
                    replaced |-> IF LogName(clock) \in Listing(disk, "root")
                                 THEN disk["root"][LogName(clock)] ELSE 0]}
       ELSE UNCHANGED <<disk, written>>
    /\ UNCHANGED <<win32, clock, run, options, walked, current_dir, files, turns,
                   used_names_by_dir, renamed_files, counter, disk0, last, clobbers,
                   scan>>

Next == EnterDir \/ SkipFile \/ Regenerate \/ RenameFile \/ Finish

Spec == Init /\ [][Next]_vars

(***************************************************************************)
(* Several runs on the same root, the wall clock moving between them.      *)
(***************************************************************************)
\* the command lines of real runs with no exclusion rule given
NameArgSpace ==
    {args \in ArgSpace : args.exclude = {} /\ args.exclude_ext = {} /\ ~args.dry_run}

\* the command lines of the repeated runs: the log files excluded or not
RunArgSpace ==
    [length : {1}, no_letters : {FALSE}, no_digits : {FALSE}, special : {FALSE},
     dry_run : BOOLEAN, no_log : BOOLEAN, include_script : {FALSE},
     exclude : {{}}, exclude_ext : {{}, {<<"j">>}}]

InitRuns ==
    /\ RenamerInit({tree \in InitTrees : FileCount(tree) <= 1}, RunArgSpace)
    /\ scan = [pc |-> "off"]

\* the renamer is started again on the same root
NewRun ==
    /\ pc = "done" /\ run < MaxRuns
    /\ run' = run + 1
    /\ disk0' = disk
    /\ \E args \in RunArgSpace : StartOfRun(MainOptions(args))
    /\ UNCHANGED <<disk, win32, clock, written, scan>>

\* a second passes between two runs (the clock is read when the log is named)
Tick ==
    /\ pc = "done" /\ clock < MaxClock
    /\ clock' = clock + 1
    /\ UNCHANGED <<disk, win32, run, options, pc, walked, current_dir, files, turns,
                   used_names_by_dir, renamed_files, counter, disk0, last, clobbers,
                   written, scan>>

NextRuns == Next \/ NewRun \/ Tick

SpecRuns == InitRuns /\ [][NextRuns]_vars

\* the single thread of the renamer keeps running, and the random draws of the
\* `while True` loop do not avoid for ever a name that would leave it
FairInit == RenamerInit(InitTrees, NameArgSpace) /\ scan = [pc |-> "off"]
FairSpec == FairInit /\ [][Next]_vars /\ WF_vars(Next) /\ SF_vars(RenameFile)

(***************************************************************************)
(* The metadata scanner: map_folder.                                       *)
(***************************************************************************)
\* the names of the files the scanner may meet
ScanNames ==
    { <<"t", ".", "p", "d", "f">>, <<"t", ".", "P", "D", "F">>,
      <<"t", ".", "j", "p", "g">>, <<"t", ".", "p", "n", "g">>, <<"t", ".", "t">> }

\* a file of the traversal: its name, whether os.stat fails on it, whether the
\* library reading its format raises
ScanFiles == [name : ScanNames, stat_fails : BOOLEAN, corrupt : BOOLEAN]

\* a faulty variant: the except clause keeps what was read before the exception
get_pdf_metadata_Partial(file) ==
    IF file.corrupt THEN {"page_count"}
    ELSE {"page_count", "document_title", "author", "subject", "keywords", "producer",
          "creation_date", "modification_date", "pdf_version", "font_usage",
          "color_profile", "tagged_pdf", "encryption_status"}
\* the keys of the mapping get_pdf_metadata returns ({} after an exception)
get_pdf_metadata(file) ==
    IF file.corrupt THEN {}
    ELSE {"page_count", "document_title", "author", "subject", "keywords", "producer",
          "creation_date", "modification_date", "pdf_version", "font_usage",
          "color_profile", "tagged_pdf", "encryption_status"}

\* the keys of the mapping get_image_metadata returns ({} after an exception)
get_image_metadata(file) ==
    IF file.corrupt THEN {}
    ELSE {"dimensions", "color_mode", "resolution", "exif", "ICC_profile"}

\* the record map_folder appends for a file whose os.stat succeeded
FileData(file) ==
    LET ext == Lower(Extension(file.name))
        base == [filename |-> file.name, file_type |-> ext, sub |-> "none", metadata |-> {}]
    IN  IF ext = <<".", "p", "d", "f">>
        THEN [base EXCEPT !.sub = "pdf_metadata", !.metadata = get_pdf_metadata(file)]
        ELSE IF ext \in {<<".", "j", "p", "g">>, <<".", "j", "p", "e", "g">>,
                        <<".", "p", "n", "g">>}
        THEN [base EXCEPT !.sub = "image_metadata", !.metadata = get_image_metadata(file)]
        ELSE base

\* the sequences over S of length at most n
SeqUpTo(S, n) == UNION {[1..k -> S] : k \in 0..n}

InitScan ==
    /\ scan \in [pc : {"walk"}, walk : SeqUpTo(ScanFiles, MaxScan), done : {<<>>},
                 files_list : {<<>>}]
    /\ RenamerInit({Tree({"root"}, {})}, {CHOOSE args \in RunArgSpace : TRUE})
    /\ win32 = FALSE

\* one turn of the loop over the files: get_file_info, the format's metadata, append;
\* an exception of os.stat leaves map_folder
ScanFile ==
    /\ scan.pc = "walk" /\ scan.walk # <<>>
    /\ LET file == Head(scan.walk)
       IN  scan' = IF file.stat_fails
                   THEN [scan EXCEPT !.pc = "raised"]
                   ELSE [scan EXCEPT !.walk = Tail(@),
                                     !.done = Append(@, file),
                                     !.files_list = Append(@, FileData(file))]
    /\ UNCHANGED renamer_vars

\* the traversal is over: map_folder returns {"files": files_list}
ScanReturn ==
    /\ scan.pc = "walk" /\ scan.walk = <<>>
    /\ scan' = [scan EXCEPT !.pc = "returned"]
    /\ UNCHANGED renamer_vars

NextScan == ScanFile \/ ScanReturn

SpecScan == InitScan /\ [][NextScan]_vars

(***************************************************************************)
(* The claims.                                                             *)
(***************************************************************************)
RealRun == ~options.dry_run
\* the run is over a single directory: the root has no subdirectory
SingleDir == DOMAIN disk0 = {"root"}
\* no file of the root falls under an exclusion rule
NoExclusion == \A n \in DOMAIN disk0["root"] : ~should_exclude_file("root", n, options)
RootPaths == {<<"root", n>> : n \in DOMAIN disk0["root"]}
LogNames == {LogName(t) : t \in 0..MaxClock}

\* C1, as stated: after a real run over a single directory of N files with no
\* exclusion in effect, every file is a key of the mapping and the mapping has
\* N distinct values.
C1_Original ==
    (pc = "done" /\ RealRun /\ SingleDir /\ NoExclusion) =>
        /\ Keys(renamed_files) = RootPaths
        /\ Cardinality(Values(renamed_files)) = Cardinality(RootPaths)

\* C1, amended: after such a run the mapping has one entry for each file whose
\* rename succeeded, N - errors of them (N when no rename fails); its keys are
\* files of the directory, and its keys and its values are pairwise distinct.
C1_Amended ==
    (pc = "done" /\ RealRun /\ SingleDir /\ NoExclusion) =>
        /\ Keys(renamed_files) \subseteq RootPaths
        /\ Cardinality(Keys(renamed_files)) = Cardinality(RootPaths) - counter.errors
        /\ Cardinality(Values(renamed_files)) = Cardinality(Keys(renamed_files))
        /\ Cardinality(renamed_files) = Cardinality(Keys(renamed_files))

\* C1, witness: a real run over a single directory of two or more files, no
\* exclusion, has ended with one rename failed and the others done.
C1_Witness ==
    /\ pc = "done" /\ RealRun /\ SingleDir /\ NoExclusion
    /\ Cardinality(RootPaths) >= 2
    /\ counter.errors = 1 /\ counter.renamed = Cardinality(RootPaths) - 1

\* C2: in a dry run the tree on disk is what it was when the run started (no
\* rename, copy or delete is issued) and no rename_log file has been written.
C2_DryRunFrame ==
    options.dry_run =>
        /\ disk = disk0
        /\ written = {}
        /\ Listing(disk, "root") \cap LogNames = {}

\* C2, witness: a dry run with logging enabled has ended having mapped two files.
C2_Witness ==
    /\ pc = "done" /\ options.dry_run /\ options.create_log
    /\ Cardinality(renamed_files) >= 2

\* whether the extension of `filename` is, letter case aside, in the configured set
ExtensionConfigured(filename) ==
    \E ext \in options.exclude_extensions : Lower(ext) = Lower(Extension(filename))

\* C3, as stated: a file whose extension, compared case-insensitively, is in the
\* set given through --exclude-ext is counted as skipped, is never a key of the
\* mapping, and is on disk under its name, unchanged, after the run.
C3_Claim ==
    \A d \in DOMAIN disk0 : \A n \in DOMAIN disk0[d] :
        ExtensionConfigured(n) =>
            /\ <<d, n>> \notin Keys(renamed_files)
            /\ (last.action # "none" /\ last.dir = d /\ last.filename = n)
                  => last.action = "skipped"
            /\ pc = "done" => (n \in DOMAIN disk[d] /\ disk[d][n] = disk0[d][n])

\* C4, as stated: the extension os.path.splitext gives for the new name of a
\* renamed file is the extension of its old name, letter case included.
C4_Claim ==
    last.action = "renamed" => Extension(last.new_name) = Extension(last.filename)

\* C5, as stated: a file is counted in errors only after the three tiers were
\* attempted for it in order: direct rename, long-path rename, copy then delete.
C5_Claim ==
    last.action = "error" => last.tiers = <<"direct", "longpath", "copy">>

\* C6, as stated: no run's log write replaces the log document of an earlier run.
C6_Claim ==
    \A w \in written : w.replaced \notin {LogDoc(r) : r \in 1..MaxRuns}

\* whether the scanner reads a format's metadata for a file of that name
IsPdf(name) == Lower(Extension(name)) = <<".", "p", "d", "f">>
IsImage(name) ==
    Lower(Extension(name)) \in
        {<<".", "j", "p", "g">>, <<".", "j", "p", "e", "g">>, <<".", "p", "n", "g">>}

\* C7: a file whose format-specific extraction fails is emitted with its base
\* record and an empty mapping as that format's sub-record; the failure never
\* leaves map_folder (only os.stat can), and the files after it are emitted: when
\* map_folder returns, one record per file of the traversal has been emitted.
C7_ScanSurvives ==
    scan.pc # "off" =>
        /\ Len(scan.files_list) = Len(scan.done)
        /\ \A i \in 1..Len(scan.done) :
              LET file == scan.done[i]
                  data == scan.files_list[i]
              IN  /\ data.filename = file.name
                  /\ (file.corrupt /\ IsPdf(file.name)) =>
                        (data.sub = "pdf_metadata" /\ data.metadata = {})
                  /\ (file.corrupt /\ IsImage(file.name)) =>
                        (data.sub = "image_metadata" /\ data.metadata = {})
        /\ scan.pc = "raised" => Head(scan.walk).stat_fails
        /\ scan.pc = "returned" => scan.walk = <<>>

\* C7, witness: map_folder has returned after a corrupt PDF and a corrupt image
\* that were each followed by another file.
C7_Witness ==
    /\ scan.pc = "returned"
    /\ Len(scan.done) = MaxScan
    /\ \E i \in 1..(Len(scan.done) - 1) : scan.done[i].corrupt /\ IsPdf(scan.done[i].name)
    /\ \E i \in 1..(Len(scan.done) - 1) : scan.done[i].corrupt /\ IsImage(scan.done[i].name)

\* C8, as stated: every run terminates: it reaches its summary.
C8_Claim == <>(pc = "done")

\* the number of files of directory d, the run's own log aside
CountFiles(dk, d) == Cardinality(Listing(dk, d) \ LogNames)

\* C9, as stated: no rename of a real run targets a name held by another file of
\* the directory, and after the run every directory holds as many files as before.
C9_Original ==
    /\ clobbers = {}
    /\ (pc = "done" /\ RealRun) => \A d \in DOMAIN disk0 : CountFiles(disk, d) = CountFiles(disk0, d)

\* a step of the run that issued a rename for a file
RenameIssued == counter'.total = counter.total + 1 /\ last'.action \in {"renamed", "error"}

\* C9, amended: a rename of a real run never targets a name generated before for
\* the same directory in this run, so no two renames of a run in one directory
\* have the same target; the target may be held by another file (clobbers), and
\* a rename whose target is not held, done without the copy tier, leaves the
\* number of files of every directory unchanged.
C9_Amended ==
    [][RenameIssued =>
         /\ last'.new_name \notin used_names_by_dir[current_dir]
         /\ (clobbers' = clobbers /\ last'.tiers # <<"direct", "longpath", "copy">>)
               => \A d \in DOMAIN disk0 : CountFiles(disk', d) = CountFiles(disk, d)]_vars

\* C9, witness: a real run has renamed two files, none onto a held name, and the
\* tree holds as many files as before.
C9_Witness ==
    /\ RealRun /\ last.action = "renamed" /\ counter.renamed >= 2 /\ clobbers = {}
    /\ \A d \in DOMAIN disk0 : CountFiles(disk, d) = CountFiles(disk0, d)

\* the counters partition the files seen, and renamed counts the mapping's entries
CountersPartition ==
    RealRun =>
        /\ counter.total = counter.renamed + counter.skipped + counter.errors
        /\ counter.renamed = Cardinality(renamed_files)

\* C10: in a run that is not a dry run, at the start, after each file and at the
\* end, total = renamed + skipped + errors and renamed is the number of entries
\* of the mapping; no counter ever decreases during the run.
C10_Counters ==
    /\ CountersPartition
    /\ [][/\ CountersPartition'
          /\ \A k \in {"total", "renamed", "skipped", "errors"} : counter'[k] >= counter[k]]_vars

\* C10, witness: a real run has ended having renamed a file and skipped or
\* failed on another.
C10_Witness ==
    /\ pc = "done" /\ RealRun
    /\ counter.renamed >= 1 /\ counter.skipped + counter.errors >= 1

====
